---- MODULE Spec2Model ----
(***************************************************************************)
(* A model of the SOP lifecycle engine of vision_cortex:                   *)
(*   doc_system/auto_sop_agent.py        AutoSOPAgent (store, executor,    *)
(*                                       agent-side validation, refine)    *)
(*   doc_system/sop_validator_refiner.py SOPValidator (findings, score)    *)
(*                                                                         *)
(* Conventions                                                             *)
(*   - a Python dict is a TLA+ record/function; d.get(k, default) is       *)
(*     Get(d, k, default), so a missing key stays a missing key;           *)
(*   - None is the string "None";                                          *)
(*   - a text is one of the strings of StrLen's table, its len() is        *)
(*     StrLen(s); truthiness of a text is s # "";                          *)
(*   - the float quality score is kept in half points (Half(x) = 2x), the  *)
(*     only fractions the code produces being multiples of 0.5;            *)
(*   - success_rate is kept in hundredths of a percent;                    *)
(*   - version "a.b.c" is the tuple <<a, b, c>> that split('.') yields;    *)
(*   - the sha256 content hash is an injective function of the JSON text,  *)
(*     modelled by the serialised step list itself;                        *)
(*   - an Enum member is the string of its value ("draft"), its name is    *)
(*     another string ("DRAFT"); Member[name] is ByName(Members, name).    *)
(*                                                                         *)
(* Specifications                                                          *)
(*   Spec   any calls on one SOP built from the catalog of operations      *)
(*   SpecV  validate_sop_comprehensive on SOP dicts                        *)
(*   SpecQ  the quality score on finding lists                             *)
(*   SpecL  longer sessions on one workflow, with agents constructed later *)
(*          over the same sop_dir                                          *)
(*   SpecH  queries on the execution history of two workflows              *)
(*   SpecS  list_sops and reports on execution records, two workflows      *)
(*   SpecC  execute_sop and refine_sop of one workflow on callers' threads *)
(***************************************************************************)
EXTENDS Integers, Sequences, FiniteSets, TLC

VARIABLES
    sops,               \* AutoSOPAgent.sops: sop_id -> SOPDefinition
    execution_history,  \* AutoSOPAgent.execution_history
    disk,               \* the files of sop_dir: sop_id -> the dict of <sop_id>.json
    last,               \* the call that just returned, and what it returned
    threads             \* the calls in progress on callers' threads: where each
                        \* stands and the values it holds in locals

vars == <<sops, execution_history, disk, last, threads>>

---------------------------------------------------------------------------
(* Bounds of the model *)

\* longest operation list handed to create_sop_from_operations
MaxSteps == 2
\* number of execute_sop, validate_sop and refine_sop calls on stored SOPs
MaxCalls == 2
\* the same number in the sessions on one workflow (SpecL)
MaxDepth == 3
\* copies of one finding in the finding lists that are scored (SpecQ)
MaxFindings == 11
\* records in the execution history that is queried, and largest limit (SpecH)
MaxRecords == 3

---------------------------------------------------------------------------
(* Values *)

None == "None"

SopIds == {"git_commit_workflow"}
CallIds == SopIds \cup {"unknown_sop"}

\* len() of the texts the model uses
StrLen(s) ==
    CASE s = "" -> 0
      [] s = "Commit" -> 6
      [] s = "Stage all" -> 9
      [] s = "First step" -> 10
      [] s = "Verify repository is clean" -> 26
      [] s = "Standard git commit workflow" -> 28
      [] OTHER -> 12

Get(d, k, default) == IF k \in DOMAIN d THEN d[k] ELSE default

Range(s) == {s[i] : i \in DOMAIN s}

\* f"Step {i}"
StepLabel(i) ==
    CASE i = 1 -> "Step 1" [] i = 2 -> "Step 2" [] i = 3 -> "Step 3" [] OTHER -> "Step n"

(* The operation dicts callers hand to create_sop_from_operations. *)
OpEcho1 ==
    [name |-> "Check git status", description |-> "Verify repository is clean",
     command |-> "echo 1"]
OpEcho2 ==
    [name |-> "Stage changes", description |-> "First step",
     command |-> "echo 2", dependencies |-> <<1>>]
OpCritical ==
    [name |-> "Commit changes", description |-> "Stage all",
     command |-> "git commit", retry_on_failure |-> FALSE,
     validation_check |-> "git log -1"]
OpBare == [command |-> ""]

OpCatalog == {OpEcho1, OpEcho2, OpCritical, OpBare}

SeqsUpTo(S, n) == UNION {[1..k -> S] : k \in 0..n}

\* what the command collaborator does with one step: exit 0 (and exit 0 of the
\* validation_check, if any); non-zero exit, TimeoutExpired or another exception
\* of the command; exit 0 followed by a non-zero exit of the validation_check
Outcome == {"ok", "fail", "vfail"}

---------------------------------------------------------------------------
(* SOPStore *)

\* steps numbered from 0, as enumerate(operations) would
MakeStepFromZero(i, op, component) ==
    [step_number |-> i - 1,
     name |-> Get(op, "name", StepLabel(i - 1)),
     description |-> Get(op, "description", ""),
     command |-> Get(op, "command", ""),
     component |-> component,
     expected_output |-> Get(op, "expected_output", None),
     validation_check |-> Get(op, "validation_check", None),
     rollback_command |-> Get(op, "rollback_command", None),
     timeout_seconds |-> Get(op, "timeout_seconds", 300),
     retry_on_failure |-> Get(op, "retry_on_failure", TRUE),
     max_retries |-> 3,
     dependencies |-> Get(op, "dependencies", <<>>),
     tags |-> Get(op, "tags", <<>>)]

\* SOPStep(...) as built by create_sop_from_operations for operation op at i
MakeStep(i, op, component) ==
    [step_number |-> i,
     name |-> Get(op, "name", StepLabel(i)),
     description |-> Get(op, "description", ""),
     command |-> Get(op, "command", ""),
     component |-> component,
     expected_output |-> Get(op, "expected_output", None),
     validation_check |-> Get(op, "validation_check", None),
     rollback_command |-> Get(op, "rollback_command", None),
     timeout_seconds |-> Get(op, "timeout_seconds", 300),
     retry_on_failure |-> Get(op, "retry_on_failure", TRUE),
     max_retries |-> 3,
     dependencies |-> Get(op, "dependencies", <<>>),
     tags |-> Get(op, "tags", <<>>)]

\* json.dumps([asdict(s) for s in steps], sort_keys=True) hashed by sha256
_compute_hash(steps) == steps

NewSop(sop_id, name, description, component, operations) ==
    LET steps == [i \in 1..Len(operations) |-> MakeStep(i, operations[i], component)]
    IN [sop_id |-> sop_id,
        name |-> name,
        version |-> <<1, 0, 0>>,
        status |-> "draft",
        description |-> description,
        component |-> component,
        steps |-> steps,
        prerequisites |-> <<>>,
        tags |-> <<component>>,
        validation_level |-> "permissive",
        execution_count |-> 0,
        success_count |-> 0,
        failure_count |-> 0,
        content_hash |-> _compute_hash(steps)]

---------------------------------------------------------------------------
(* Persistence *)

\* the members of the Enum classes: name -> value
SOPStatus ==
    [DRAFT |-> "draft", VALIDATED |-> "validated", IN_USE |-> "in_use",
     DEPRECATED |-> "deprecated", ARCHIVED |-> "archived"]
ValidationLevel ==
    [PERMISSIVE |-> "permissive", MODERATE |-> "moderate", STRICT |-> "strict",
     CERTIFIED |-> "certified"]

KeyError == "KeyError"

\* Members[key]: the member of that name, or KeyError
ByName(Members, key) == IF key \in DOMAIN Members THEN Members[key] ELSE KeyError

\* the dict _save_sop dumps: asdict(sop) with sop.status.value and
\* sop.validation_level.value, the strings that stand for the members here
SavedDict(sop) == sop

\* _save_sop: the file <sop_id>.json is rewritten
_save_sop(files, sop) ==
    [id \in DOMAIN files \cup {sop.sop_id} |->
        IF id = sop.sop_id THEN SavedDict(sop) ELSE files[id]]

\* whether the reconstruction of a SOPDefinition from the dict of one file
\* goes through: SOPStatus[...] and ValidationLevel[...] raise no KeyError
Loads(sop_data) ==
    /\ ByName(SOPStatus, sop_data.status) # KeyError
    /\ ByName(ValidationLevel, Get(sop_data, "validation_level", "PERMISSIVE")) # KeyError

\* the SOPDefinition _load_sops rebuilds from the dict of one file
LoadedSop(sop_data) ==
    [sop_data EXCEPT !.status = ByName(SOPStatus, sop_data.status),
                     !.validation_level =
                         ByName(ValidationLevel,
                                Get(sop_data, "validation_level", "PERMISSIVE"))]

\* self.sops after _load_sops on an agent that starts empty: a file whose
\* reconstruction raises is logged and skipped
_load_sops(files) ==
    LET loaded == {id \in DOMAIN files : Loads(files[id])}
        by_id == {files[id].sop_id : id \in loaded}
    IN [sop_id \in by_id |->
          LoadedSop(files[CHOOSE id \in loaded : files[id].sop_id = sop_id])]

---------------------------------------------------------------------------
(* SOPExecutor *)

\* _execute_step: (success, output) -> success
_execute_step(step, dry_run, outcome) ==
    IF dry_run THEN TRUE
    ELSE CASE outcome = "fail" -> FALSE
           [] outcome = "vfail" -> step.validation_check \in {None, ""}
           [] OTHER -> TRUE

\* all(dep in execution.output for dep in step.dependencies)
DepsMet(step, output) == \A k \in DOMAIN step.dependencies : step.dependencies[k] \in output

\* the state of the loop over sop.steps at its start
LoopStart ==
    [steps_completed |-> 0,
     failed_steps |-> <<>>,
     step_outputs |-> {},   \* keys of the local dict step_outputs
     output |-> {},         \* keys of execution.output while the loop runs
     attempted |-> <<>>,    \* list positions the loop reached
     invoked |-> <<>>,      \* list positions handed to _execute_step
     failed_at |-> <<>>]    \* list positions whose step_number went to failed_steps

\* a command that is run in a dry run too
CollaboratorCallsAlways(step, dry_run, outcome) == <<step.command>>

\* the subprocess.run calls of _execute_step, in order: none in a dry run; the
\* command, then the validation_check if there is one and the command exited 0
CollaboratorCalls(step, dry_run, outcome) ==
    IF dry_run THEN <<>>
    ELSE <<step.command>>
         \o (IF step.validation_check \notin {None, ""} /\ outcome # "fail"
             THEN <<step.validation_check>> ELSE <<>>)

\* a loop that never leaves early
AbortNever(step) == FALSE

\* if not step.retry_on_failure: break
AbortAfterFailure(step) == ~step.retry_on_failure

\* a loop that hands a failed step with retry_on_failure to _execute_step again
RECURSIVE ExecLoopRetrying(_, _, _, _, _)
ExecLoopRetrying(steps, dry_run, env, i, st) ==
    IF i > Len(steps) THEN st
    ELSE
      LET step == steps[i]
          here == [st EXCEPT !.attempted = Append(@, i)]
      IN IF step.dependencies # <<>> /\ ~DepsMet(step, st.output)
         THEN ExecLoopRetrying(steps, dry_run, env, i + 1,
                               [here EXCEPT !.failed_steps = Append(@, step.step_number),
                                            !.failed_at = Append(@, i)])
         ELSE
           LET success == _execute_step(step, dry_run, env[i])
               ran == [here EXCEPT !.invoked = Append(@, i),
                                   !.step_outputs = @ \cup {step.step_number}]
           IN IF success
              THEN ExecLoopRetrying(steps, dry_run, env, i + 1,
                                    [ran EXCEPT !.steps_completed = @ + 1])
              ELSE
                LET failed == [ran EXCEPT !.failed_steps = Append(@, step.step_number),
                                          !.failed_at = Append(@, i)]
                IN IF AbortAfterFailure(step)
                   THEN failed
                   ELSE ExecLoopRetrying(steps, dry_run, env, i + 1,
                                         [failed EXCEPT !.invoked = Append(@, i)])

RECURSIVE ExecLoop(_, _, _, _, _)
ExecLoop(steps, dry_run, env, i, st) ==
    IF i > Len(steps) THEN st
    ELSE
      LET step == steps[i]
          here == [st EXCEPT !.attempted = Append(@, i)]
      IN IF step.dependencies # <<>> /\ ~DepsMet(step, st.output)
         THEN ExecLoop(steps, dry_run, env, i + 1,
                       [here EXCEPT !.failed_steps = Append(@, step.step_number),
                                    !.failed_at = Append(@, i)])
         ELSE
           LET success == _execute_step(step, dry_run, env[i])
               ran == [here EXCEPT !.invoked = Append(@, i),
                                   !.step_outputs = @ \cup {step.step_number}]
           IN IF success
              THEN ExecLoop(steps, dry_run, env, i + 1,
                            [ran EXCEPT !.steps_completed = @ + 1])
              ELSE
                LET failed == [ran EXCEPT !.failed_steps = Append(@, step.step_number),
                                          !.failed_at = Append(@, i)]
                IN IF AbortAfterFailure(step)
                   THEN failed
                   ELSE ExecLoop(steps, dry_run, env, i + 1, failed)

\* steps_completed / steps_total * 100, in hundredths of a percent
SuccessRate(steps_completed, steps_total) ==
    IF steps_total > 0 THEN (steps_completed * 10000) \div steps_total ELSE 0

\* a record whose steps_total counts the steps the loop reached
ExecutionOfReached(sop, st) ==
    [sop_id |-> sop.sop_id,
     sop_version |-> sop.version,
     status |-> IF Len(st.failed_steps) = 0 THEN "completed" ELSE "failed",
     steps_completed |-> st.steps_completed,
     steps_total |-> Len(st.attempted),
     success_rate |-> SuccessRate(st.steps_completed, Len(st.attempted)),
     failed_steps |-> st.failed_steps,
     output |-> st.step_outputs]

\* a record that keeps status running when a step failed
ExecutionLeftRunning(sop, st) ==
    [sop_id |-> sop.sop_id,
     sop_version |-> sop.version,
     status |-> IF Len(st.failed_steps) = 0 THEN "completed" ELSE "running",
     steps_completed |-> st.steps_completed,
     steps_total |-> Len(sop.steps),
     success_rate |-> SuccessRate(st.steps_completed, Len(sop.steps)),
     failed_steps |-> st.failed_steps,
     output |-> st.step_outputs]

\* the SOPExecution record execute_sop builds from the finished loop
Execution(sop, st) ==
    [sop_id |-> sop.sop_id,
     sop_version |-> sop.version,
     status |-> IF Len(st.failed_steps) = 0 THEN "completed" ELSE "failed",
     steps_completed |-> st.steps_completed,
     steps_total |-> Len(sop.steps),
     success_rate |-> SuccessRate(st.steps_completed, Len(sop.steps)),
     failed_steps |-> st.failed_steps,
     output |-> st.step_outputs]

\* counters that forget the executions that failed
UpdateMetricsOnSuccess(sop, status) ==
    [sop EXCEPT !.execution_count = @ + 1,
                !.success_count = IF status = "completed" THEN @ + 1 ELSE @]

\* counters, and a status that follows the executions
UpdateMetricsMarkingInUse(sop, status) ==
    [sop EXCEPT !.execution_count = @ + 1,
                !.success_count = IF status = "completed" THEN @ + 1 ELSE @,
                !.failure_count = IF status = "completed" THEN @ ELSE @ + 1,
                !.status = "in_use"]

\* the counters of the SOP after an execution that ended with `status`
UpdateMetrics(sop, status) ==
    [sop EXCEPT !.execution_count = @ + 1,
                !.success_count = IF status = "completed" THEN @ + 1 ELSE @,
                !.failure_count = IF status = "completed" THEN @ ELSE @ + 1]

RECURSIVE Sum(_, _)
Sum(f, S) == IF S = {} THEN 0 ELSE LET x == CHOOSE x \in S : TRUE IN f[x] + Sum(f, S \ {x})

\* the calls made so far that changed a stored SOP: every execution left a
\* record in the history, every refinement raised a patch number
Calls == Len(execution_history) + Sum([id \in DOMAIN sops |-> sops[id].version[3]], DOMAIN sops)

---------------------------------------------------------------------------
(* SOPValidator *)

\* 2x: a float that is a multiple of 0.5, in half points
Half(x) == 2 * x

\* s[1] \o F(s[1], 1) ... : the findings a loop over the list s collects
ConcatMap(s, F(_, _)) ==
    LET acc[i \in 0..Len(s)] == IF i = 0 THEN <<>> ELSE acc[i - 1] \o F(s[i], i)
    IN acc[Len(s)]

Finding(code, finding_type, category, step_number, severity) ==
    [code |-> code, finding_type |-> finding_type, category |-> category,
     step_number |-> step_number, severity |-> severity]

\* `not sop_data[field]` for the value of a required field
Falsy(field, value) == IF field \in {"steps", "version"} THEN value = <<>> ELSE value = ""

RequiredFields == <<"sop_id", "name", "version", "description", "component", "steps">>

_check_structure(sop_data) ==
    LET steps == Get(sop_data, "steps", <<>>)
        missing(field, k) ==
            IF field \notin DOMAIN sop_data \/ Falsy(field, sop_data[field])
            THEN <<Finding("STR_001", "error", "structure", None, 5)>>
            ELSE <<>>
        numbering(step, i) ==
            IF Get(step, "step_number", None) # i
            THEN <<Finding("STR_003", "error", "structure", i, 4)>>
            ELSE <<>>
    IN ConcatMap(RequiredFields, missing)
       \o (IF steps = <<>>
           THEN <<Finding("STR_002", "error", "structure", None, 5)>>
           ELSE <<>>)
       \o ConcatMap(steps, numbering)

_check_syntax(sop_data) ==
    LET steps == Get(sop_data, "steps", <<>>)
        perStep(step, i) ==
            LET step_num == Get(step, "step_number", None)
            IN (IF Get(step, "command", "") = ""
                THEN <<Finding("SYN_001", "error", "syntax", step_num, 5)>> ELSE <<>>)
               \o (IF Get(step, "name", "") = ""
                   THEN <<Finding("SYN_002", "error", "syntax", step_num, 4)>> ELSE <<>>)
               \o (IF Get(step, "description", "") = ""
                   THEN <<Finding("SYN_003", "warning", "syntax", step_num, 3)>> ELSE <<>>)
    IN ConcatMap(steps, perStep)

\* one finding at most per dependency: the forward check is an elif
DepFindingsEither(dep, step_num, step_numbers) ==
    IF dep \notin step_numbers
    THEN <<Finding("LOG_001", "error", "logic", step_num, 5)>>
    ELSE IF dep >= step_num
         THEN <<Finding("LOG_002", "error", "logic", step_num, 5)>> ELSE <<>>

\* a forward check that lets a step depend on itself
DepFindingsStrict(dep, step_num, step_numbers) ==
    (IF dep \notin step_numbers
     THEN <<Finding("LOG_001", "error", "logic", step_num, 5)>> ELSE <<>>)
    \o (IF dep > step_num
        THEN <<Finding("LOG_002", "error", "logic", step_num, 5)>> ELSE <<>>)

\* the findings _check_logic adds for dependency dep of the step numbered step_num
DepFindings(dep, step_num, step_numbers) ==
    (IF dep \notin step_numbers
     THEN <<Finding("LOG_001", "error", "logic", step_num, 5)>> ELSE <<>>)
    \o (IF dep >= step_num
        THEN <<Finding("LOG_002", "error", "logic", step_num, 5)>> ELSE <<>>)

_check_logic(sop_data) ==
    LET steps == Get(sop_data, "steps", <<>>)
        step_numbers == {steps[i].step_number : i \in DOMAIN steps}
        perStep(step, i) ==
            LET perDep(dep, k) == DepFindings(dep, step.step_number, step_numbers)
            IN ConcatMap(Get(step, "dependencies", <<>>), perDep)
    IN ConcatMap(steps, perStep)

_check_efficiency(sop_data) ==
    LET steps == Get(sop_data, "steps", <<>>)
        perStep(step, i) ==
            IF Get(step, "timeout_seconds", 300) > 3600
            THEN <<Finding("EFF_003", "suggestion", "efficiency", step.step_number, 1)>>
            ELSE <<>>
    IN (IF Len(steps) > 50
        THEN <<Finding("EFF_001", "warning", "efficiency", None, 2)>> ELSE <<>>)
       \o (IF Len(steps) < 1
           THEN <<Finding("EFF_002", "info", "efficiency", None, 1)>> ELSE <<>>)
       \o ConcatMap(steps, perStep)

_check_clarity(sop_data) ==
    LET steps == Get(sop_data, "steps", <<>>)
        perStep(step, i) ==
            IF StrLen(Get(step, "description", "")) < 10
            THEN <<Finding("CLR_003", "suggestion", "clarity", step.step_number, 1)>>
            ELSE <<>>
    IN (IF StrLen(Get(sop_data, "description", "")) < 20
        THEN <<Finding("CLR_001", "suggestion", "clarity", None, 1)>> ELSE <<>>)
       \o (IF Get(sop_data, "prerequisites", <<>>) = <<>>
           THEN <<Finding("CLR_002", "suggestion", "clarity", None, 1)>> ELSE <<>>)
       \o ConcatMap(steps, perStep)

\* no execution results: None (or an empty dict, as falsy as None)
NoResults == [k \in {} |-> None]

_check_execution(sop_data, execution_results) ==
    LET perFailed(step_num, k) == <<Finding("EXE_001", "error", "logic", step_num, 5)>>
    IN IF Get(execution_results, "status", None) = "FAILED"
       THEN ConcatMap(Get(execution_results, "failed_steps", <<>>), perFailed)
       ELSE <<>>

\* the list `findings` of validate_sop_comprehensive
Findings(sop_data, execution_results) ==
    _check_structure(sop_data) \o _check_syntax(sop_data) \o _check_logic(sop_data)
    \o _check_efficiency(sop_data) \o _check_clarity(sop_data)
    \o (IF DOMAIN execution_results # {}
        THEN _check_execution(sop_data, execution_results) ELSE <<>>)

\* a deduction that credits the warnings
DeductionCreditingWarnings(finding) ==
    CASE finding.finding_type = "error" -> Half(finding.severity * 2)
      [] finding.finding_type = "warning" -> 0 - Half(finding.severity * 1)
      [] finding.finding_type = "suggestion" -> 1
      [] OTHER -> 0

\* what one finding deducts, in half points
Deduction(finding) ==
    CASE finding.finding_type = "error" -> Half(finding.severity * 2)
      [] finding.finding_type = "warning" -> Half(finding.severity * 1)
      [] finding.finding_type = "suggestion" -> 1
      [] OTHER -> 0

\* 100.0 minus the deductions, before the clamp, in half points
RawScore(findings) ==
    LET acc[i \in 0..Len(findings)] ==
            IF i = 0 THEN Half(100) ELSE acc[i - 1] - Deduction(findings[i])
    IN acc[Len(findings)]

Max(a, b) == IF a >= b THEN a ELSE b

Min(a, b) == IF a <= b THEN a ELSE b

\* a score that is not clamped
QualityScoreUnclamped(findings) == RawScore(findings)

\* quality_score = max(0, quality_score), in half points
QualityScore(findings) == Max(0, RawScore(findings))

CountType(findings, t) == Cardinality({i \in DOMAIN findings : findings[i].finding_type = t})

\* is_approved = errors == 0 and quality_score >= 80
IsApproved(errors, quality_score) == errors = 0 /\ quality_score >= Half(80)

validate_sop_comprehensive(sop_data, execution_results) ==
    LET findings == Findings(sop_data, execution_results)
        errors == CountType(findings, "error")
        quality_score == QualityScore(findings)
    IN [sop_id |-> sop_data.sop_id,
        total_findings |-> Len(findings),
        errors |-> errors,
        warnings |-> CountType(findings, "warning"),
        infos |-> CountType(findings, "info"),
        suggestions |-> CountType(findings, "suggestion"),
        overall_quality_score |-> quality_score,
        is_approved |-> IsApproved(errors, quality_score),
        findings |-> findings]

---------------------------------------------------------------------------
(* AutoSOPAgent: validation checks and refinement *)

\* a structure check that accepts an empty step list
_validate_structure_of_fields(sop) ==
    /\ ~(sop.sop_id = "" \/ sop.name = "")
    /\ \A i \in DOMAIN sop.steps : sop.steps[i].step_number = i

_validate_structure(sop) ==
    /\ ~(sop.sop_id = "" \/ sop.name = "" \/ sop.steps = <<>>)
    /\ \A i \in DOMAIN sop.steps : sop.steps[i].step_number = i

_validate_syntax(sop) ==
    \A i \in DOMAIN sop.steps : ~(sop.steps[i].command = "" \/ sop.steps[i].name = "")

_validate_dependencies(sop) ==
    LET step_numbers == {sop.steps[i].step_number : i \in DOMAIN sop.steps}
    IN \A i \in DOMAIN sop.steps : \A k \in DOMAIN sop.steps[i].dependencies :
          LET dep == sop.steps[i].dependencies[k]
          IN ~(dep \notin step_numbers \/ dep >= sop.steps[i].step_number)

_validate_completeness(sop) ==
    \A i \in DOMAIN sop.steps : sop.steps[i].description # ""

\* report["checks"] of validate_sop
Checks(sop) ==
    [structure |-> _validate_structure(sop),
     syntax |-> _validate_syntax(sop),
     dependencies |-> _validate_dependencies(sop),
     completeness |-> _validate_completeness(sop)]

\* asdict(sop), the dict get_sop returns
asdict(sop) == sop

\* the fields of SOPStep: hasattr(step, key)
StepFields ==
    {"step_number", "name", "description", "command", "component", "expected_output",
     "validation_check", "rollback_command", "timeout_seconds", "retry_on_failure",
     "max_retries", "dependencies", "tags"}

\* for key, value in changes.items(): if hasattr(step, key): setattr(step, key, value)
ApplyChanges(step, changes) ==
    [key \in DOMAIN step |->
        IF key \in DOMAIN changes /\ key \in StepFields THEN changes[key] ELSE step[key]]

\* next((s for s in sop.steps if s.step_number == step_num), None), as a position
FindStep(steps, step_num) ==
    IF \E i \in DOMAIN steps : steps[i].step_number = step_num
    THEN CHOOSE i \in DOMAIN steps :
            /\ steps[i].step_number = step_num
            /\ \A j \in DOMAIN steps : steps[j].step_number = step_num => i <= j
    ELSE 0

\* the loop over updates.items(); updates is a list of <<step_num, changes>>
ApplyUpdates(steps, updates) ==
    LET acc[k \in 0..Len(updates)] ==
            IF k = 0 THEN steps
            ELSE LET i == FindStep(acc[k - 1], updates[k][1])
                 IN IF i = 0 THEN acc[k - 1]
                    ELSE [acc[k - 1] EXCEPT ![i] = ApplyChanges(@, updates[k][2])]
    IN acc[Len(updates)]

\* a bump of the minor component
BumpMinor(version) == [version EXCEPT ![2] = @ + 1]

\* version_parts[2] = str(int(version_parts[2]) + 1)
BumpVersion(version) == [version EXCEPT ![3] = @ + 1]

(* The updates callers hand to refine_sop: new texts for step 1 together with
   a key SOPStep does not have; a forward dependency and another failure policy
   for step 1; another number for step 1; a step no SOP of the model has. *)
UpdateCatalog ==
    {<< <<1, [description |-> "Verify repository is clean", command |-> "echo 1",
              priority |-> "high"]>> >>,
     << <<1, [dependencies |-> <<2>>, retry_on_failure |-> FALSE]>> >>,
     << <<1, [step_number |-> 2]>> >>,
     << <<99, [command |-> "echo 3"]>> >>}

---------------------------------------------------------------------------
(* Operations *)

\* no call is in progress: every call below runs from its first line to its
\* return before the next one starts
NoThreads == <<>>

Init ==
    /\ sops = [id \in {} |-> None]
    /\ execution_history = <<>>
    /\ disk = [id \in {} |-> None]
    /\ last = [op |-> "init"]
    /\ threads = NoThreads

\* a create that replaces the SOP of an id that exists
CreateSopOverwriting(sop_id, name, description, component, operations) ==
    /\ LET sop == NewSop(sop_id, name, description, component, operations)
       IN /\ sops' = [id \in DOMAIN sops \cup {sop_id} |-> IF id = sop_id THEN sop ELSE sops[id]]
          /\ disk' = _save_sop(disk, sop)
          /\ last' = [op |-> "create_sop", sop_id |-> sop_id, ok |-> TRUE,
                      operations |-> operations]
          /\ UNCHANGED execution_history
    /\ UNCHANGED threads

CreateSop(sop_id, name, description, component, operations) ==
    /\ IF sop_id \in DOMAIN sops
       THEN /\ last' = [op |-> "create_sop", sop_id |-> sop_id, ok |-> FALSE,
                        operations |-> operations]
            /\ UNCHANGED <<sops, disk>>
       ELSE LET sop == NewSop(sop_id, name, description, component, operations)
            IN /\ sops' = [id \in DOMAIN sops \cup {sop_id} |->
                             IF id = sop_id THEN sop ELSE sops[id]]
               /\ disk' = _save_sop(disk, sop)
               /\ last' = [op |-> "create_sop", sop_id |-> sop_id, ok |-> TRUE,
                           operations |-> operations]
    /\ UNCHANGED execution_history
    /\ UNCHANGED threads

ExecuteSop(sop_id, dry_run, env) ==
    /\ IF sop_id \notin DOMAIN sops
       THEN /\ last' = [op |-> "execute_sop", sop_id |-> sop_id, ok |-> FALSE,
                        execution |-> None]
            /\ UNCHANGED <<sops, execution_history, disk>>
       ELSE LET sop == sops[sop_id]
                st == ExecLoop(sop.steps, dry_run, env, 1, LoopStart)
                execution == Execution(sop, st)
                counted == UpdateMetrics(sop, execution.status)
                calls(i, k) == CollaboratorCalls(sop.steps[i], dry_run, env[i])
            IN /\ sops' = [sops EXCEPT ![sop_id] = counted]
               /\ disk' = _save_sop(disk, counted)
               /\ execution_history' = Append(execution_history, execution)
               /\ last' = [op |-> "execute_sop", sop_id |-> sop_id,
                           dry_run |-> dry_run,
                           ok |-> (execution.status = "completed"),
                           execution |-> execution,
                           attempted |-> st.attempted,
                           invoked |-> st.invoked,
                           failed_at |-> st.failed_at,
                           commands |-> ConcatMap(st.invoked, calls)]
    /\ UNCHANGED threads

\* a validate_sop that leaves the counters and the history alone
ValidateSopFree(sop_id) ==
    /\ IF sop_id \notin DOMAIN sops
       THEN /\ last' = [op |-> "validate_sop", sop_id |-> sop_id, is_valid |-> FALSE]
            /\ UNCHANGED <<sops, execution_history, disk>>
       ELSE /\ LET sop == sops[sop_id]
                   checks == Checks(sop)
                   st == ExecLoop(sop.steps, TRUE, <<>>, 1, LoopStart)
                   execution == Execution(sop, st)
                   success == execution.status = "completed"
                   is_valid == (\A c \in DOMAIN checks : checks[c]) /\ success
                   after == IF is_valid THEN [sop EXCEPT !.status = SOPStatus.VALIDATED]
                            ELSE sop
               IN /\ sops' = [sops EXCEPT ![sop_id] = after]
                  /\ disk' = _save_sop(disk, after)
                  /\ UNCHANGED execution_history
                  /\ last' = [op |-> "validate_sop", sop_id |-> sop_id,
                              is_valid |-> is_valid,
                              checks |-> checks,
                              execution_test |->
                                  [success |-> success,
                                   steps_completed |-> execution.steps_completed,
                                   success_rate |-> execution.success_rate]]
    /\ UNCHANGED threads

\* a validate_sop that takes the status back to draft when the SOP is not valid
ValidateSopDemoting(sop_id) ==
    /\ IF sop_id \notin DOMAIN sops
       THEN /\ last' = [op |-> "validate_sop", sop_id |-> sop_id, is_valid |-> FALSE]
            /\ UNCHANGED <<sops, execution_history, disk>>
       ELSE /\ LET sop == sops[sop_id]
                   checks == Checks(sop)
                   st == ExecLoop(sop.steps, TRUE, <<>>, 1, LoopStart)
                   execution == Execution(sop, st)
                   success == execution.status = "completed"
                   tested == UpdateMetrics(sop, execution.status)
                   is_valid == (\A c \in DOMAIN checks : checks[c]) /\ success
                   after == [tested EXCEPT !.status = IF is_valid THEN SOPStatus.VALIDATED
                                                      ELSE SOPStatus.DRAFT]
               IN /\ sops' = [sops EXCEPT ![sop_id] = after]
                  /\ disk' = _save_sop(disk, after)
                  /\ execution_history' = Append(execution_history, execution)
                  /\ last' = [op |-> "validate_sop", sop_id |-> sop_id,
                              is_valid |-> is_valid,
                              checks |-> checks,
                              execution_test |->
                                  [success |-> success,
                                   steps_completed |-> execution.steps_completed,
                                   success_rate |-> execution.success_rate]]
    /\ UNCHANGED threads

\* validate_sop, with the dry-run execute_sop it runs
ValidateSop(sop_id) ==
    /\ IF sop_id \notin DOMAIN sops
       THEN /\ last' = [op |-> "validate_sop", sop_id |-> sop_id, is_valid |-> FALSE]
            /\ UNCHANGED <<sops, execution_history, disk>>
       ELSE /\ LET sop == sops[sop_id]
                   checks == Checks(sop)
                   st == ExecLoop(sop.steps, TRUE, <<>>, 1, LoopStart)
                   execution == Execution(sop, st)
                   success == execution.status = "completed"
                   tested == UpdateMetrics(sop, execution.status)
                   is_valid == (\A c \in DOMAIN checks : checks[c]) /\ success
                   after == IF is_valid THEN [tested EXCEPT !.status = SOPStatus.VALIDATED]
                            ELSE tested
               IN /\ sops' = [sops EXCEPT ![sop_id] = after]
                  \* saved by the dry run, and once more when the status changes
                  /\ disk' = _save_sop(_save_sop(disk, tested), after)
                  /\ execution_history' = Append(execution_history, execution)
                  /\ last' = [op |-> "validate_sop", sop_id |-> sop_id,
                              is_valid |-> is_valid,
                              checks |-> checks,
                              execution_test |->
                                  [success |-> success,
                                   steps_completed |-> execution.steps_completed,
                                   success_rate |-> execution.success_rate]]
    /\ UNCHANGED threads

\* a refine_sop that leaves content_hash as it was
RefineSopKeepingHash(sop_id, updates) ==
    /\ IF sop_id \notin DOMAIN sops
       THEN /\ last' = [op |-> "refine_sop", sop_id |-> sop_id, ok |-> FALSE]
            /\ UNCHANGED <<sops, execution_history, disk>>
       ELSE /\ LET sop == sops[sop_id]
                   refined == [sop EXCEPT !.steps = ApplyUpdates(sop.steps, updates),
                                          !.version = BumpVersion(@)]
               IN /\ sops' = [sops EXCEPT ![sop_id] = refined]
                  /\ disk' = _save_sop(disk, refined)
            /\ last' = [op |-> "refine_sop", sop_id |-> sop_id, ok |-> TRUE,
                        updates |-> updates]
            /\ UNCHANGED execution_history
    /\ UNCHANGED threads

RefineSop(sop_id, updates) ==
    /\ IF sop_id \notin DOMAIN sops
       THEN /\ last' = [op |-> "refine_sop", sop_id |-> sop_id, ok |-> FALSE]
            /\ UNCHANGED <<sops, execution_history, disk>>
       ELSE /\ LET sop == sops[sop_id]
                   steps == ApplyUpdates(sop.steps, updates)
                   refined == [sop EXCEPT !.steps = steps,
                                          !.version = BumpVersion(@),
                                          !.content_hash = _compute_hash(steps)]
               IN /\ sops' = [sops EXCEPT ![sop_id] = refined]
                  /\ disk' = _save_sop(disk, refined)
            /\ last' = [op |-> "refine_sop", sop_id |-> sop_id, ok |-> TRUE,
                        updates |-> updates]
            /\ UNCHANGED execution_history
    /\ UNCHANGED threads

\* SOPValidator.validate_sop_comprehensive on the dict get_sop returns
ValidateComprehensive(sop_id) ==
    /\ sop_id \in DOMAIN sops
    /\ LET sop_data == asdict(sops[sop_id])
       IN last' = [op |-> "validate_sop_comprehensive", sop_id |-> sop_id,
                   sop_data |-> sop_data,
                   execution_results |-> NoResults,
                   report |-> validate_sop_comprehensive(sop_data, NoResults)]
    /\ UNCHANGED <<sops, execution_history, disk>>
    /\ UNCHANGED threads

(* The arguments callers pass.  An argument the call never reads (the rest of
   a create for an id that exists, the outcomes of commands a dry run or an
   unknown id never runs) is not enumerated. *)
SopTexts ==
    {<<"", "Commit">>, <<"Git Commit Workflow", "Standard git commit workflow">>}

CreateArgs(sop_id) ==
    IF sop_id \in DOMAIN sops THEN {<<"", "", <<>>>>}
    ELSE {<<t[1], t[2], ops>> : t \in SopTexts, ops \in SeqsUpTo(OpCatalog, MaxSteps)}

Envs(sop_id, dry_run) ==
    IF sop_id \in DOMAIN sops /\ ~dry_run
    THEN [1..Len(sops[sop_id].steps) -> Outcome]
    ELSE {<<>>}

Updates(sop_id) == IF sop_id \in DOMAIN sops THEN UpdateCatalog ELSE {<<>>}

(* The calls; those that may change a stored SOP stop when the budget of
   calls is spent. *)
Create ==
    \E sop_id \in SopIds : \E a \in CreateArgs(sop_id) :
        CreateSop(sop_id, a[1], a[2], "git", a[3])

Execute ==
    /\ Calls < MaxCalls
    /\ \E sop_id \in CallIds, dry_run \in BOOLEAN : \E env \in Envs(sop_id, dry_run) :
          ExecuteSop(sop_id, dry_run, env)

Validate ==
    /\ Calls < MaxCalls
    /\ \E sop_id \in CallIds : ValidateSop(sop_id)

Refine ==
    /\ Calls < MaxCalls
    /\ \E sop_id \in CallIds : \E updates \in Updates(sop_id) : RefineSop(sop_id, updates)

Report == \E sop_id \in SopIds : ValidateComprehensive(sop_id)

Next == Create \/ Execute \/ Validate \/ Refine \/ Report

Spec == Init /\ [][Next]_vars

---------------------------------------------------------------------------
(* SOPValidator on its own: validate_sop_comprehensive takes any SOP dict, and
   the results of an execution or None. *)

\* the step dicts of the SOP dicts handed to the validator
StepDict(step_number, texts, dependencies) ==
    IF texts = "full"
    THEN [step_number |-> step_number, name |-> "Stage changes",
          description |-> "First step", command |-> "echo 2",
          dependencies |-> dependencies]
    ELSE [step_number |-> step_number, name |-> "", description |-> "", command |-> "",
          dependencies |-> dependencies, timeout_seconds |-> 7200]

StepDicts ==
    {StepDict(n, texts, deps) :
        n \in 1..MaxSteps, texts \in {"full", "blank"},
        deps \in {<<>>, <<1>>, <<3>>, <<2, 3>>}}

SopDict(header, steps) ==
    CASE header = "full" ->
            [sop_id |-> "test_sop", name |-> "Test SOP", version |-> <<1, 0, 0>>,
             description |-> "Standard git commit workflow", component |-> "test",
             prerequisites |-> <<"git">>, steps |-> steps]
      [] header = "plain" ->
            [sop_id |-> "test_sop", name |-> "Test SOP", version |-> <<1, 0, 0>>,
             description |-> "Standard git commit workflow", component |-> "test",
             steps |-> steps]
      [] OTHER ->
            [sop_id |-> "test_sop", name |-> "", version |-> <<>>,
             description |-> "", steps |-> steps]

SopDicts ==
    {SopDict(header, steps) :
        header \in {"full", "plain", "blank"}, steps \in SeqsUpTo(StepDicts, MaxSteps)}

\* execution_results: None, or the dict of a failed execution
ResultDicts == {NoResults, [status |-> "FAILED", failed_steps |-> <<1>>]}

InitV ==
    /\ sops = [id \in {} |-> None]
    /\ execution_history = <<>>
    /\ disk = [id \in {} |-> None]
    /\ \E sop_data \in SopDicts, execution_results \in ResultDicts :
          last = [op |-> "call", sop_data |-> sop_data,
                  execution_results |-> execution_results]
    /\ threads = NoThreads

ValidateDict ==
    /\ last.op = "call"
    /\ last' = [op |-> "validate_sop_comprehensive",
                sop_id |-> last.sop_data.sop_id,
                sop_data |-> last.sop_data,
                execution_results |-> last.execution_results,
                report |-> validate_sop_comprehensive(last.sop_data,
                                                      last.execution_results)]
    /\ UNCHANGED <<sops, execution_history, disk>>
    /\ UNCHANGED threads

NextV == ValidateDict

SpecV == InitV /\ [][NextV]_vars

---------------------------------------------------------------------------
(* The score of validate_sop_comprehensive on its own: the loop over the
   findings, on lists of the findings the checks produce. *)

\* one finding of each type and severity the checks produce
KindFinding(k) ==
    CASE k = 1 -> Finding("SYN_001", "error", "syntax", 1, 5)
      [] k = 2 -> Finding("SYN_002", "error", "syntax", 1, 4)
      [] k = 3 -> Finding("SYN_003", "warning", "syntax", 1, 3)
      [] k = 4 -> Finding("EFF_001", "warning", "efficiency", None, 2)
      [] k = 5 -> Finding("CLR_002", "suggestion", "clarity", None, 1)
      [] OTHER -> Finding("EFF_002", "info", "efficiency", None, 1)

Kinds == 1..6
\* the kinds that are errors or warnings
HeavyKinds == 1..4

Copies(k, n) == [i \in 1..n |-> KindFinding(k)]

InitQ ==
    /\ sops = [id \in {} |-> None]
    /\ execution_history = <<>>
    /\ disk = [id \in {} |-> None]
    /\ \E k1 \in Kinds, n \in 0..MaxFindings, k2 \in Kinds, n2 \in 0..1,
          a1 \in HeavyKinds, a2 \in HeavyKinds, m \in 0..1 :
          last = [op |-> "findings",
                  findings |-> Copies(k1, n) \o Copies(k2, n2),
                  added_before |-> Copies(a1, 1),
                  added_after |-> Copies(a2, m)]
    /\ threads = NoThreads

\* the loop of validate_sop_comprehensive over the list, and over the list with
\* the added findings around it
ScoreBoth ==
    /\ last.op = "findings"
    /\ last' = [op |-> "quality_score",
                findings |-> last.findings,
                added |-> last.added_before \o last.added_after,
                quality_score |-> QualityScore(last.findings),
                quality_score_with_added |->
                    QualityScore(last.added_before \o last.findings \o last.added_after)]
    /\ UNCHANGED <<sops, execution_history, disk>>
    /\ UNCHANGED threads

NextQ == ScoreBoth

SpecQ == InitQ /\ [][NextQ]_vars

---------------------------------------------------------------------------
(* Sessions on one workflow: longer sequences of calls on a SOP created from
   the operations of the module's example, and agents constructed later over
   the same sop_dir. *)

\* the operation lists of the sessions
WorkflowOps == {<<OpEcho1>>, <<OpEcho1, OpEcho2>>}

CreateArgsL(sop_id) ==
    IF sop_id \in DOMAIN sops THEN {<<>>} ELSE WorkflowOps

\* AutoSOPAgent(repo_root, sop_dir): a new agent over the files of sop_dir
NewAgent ==
    /\ sops' = _load_sops(disk)
    /\ execution_history' = <<>>
    /\ last' = [op |-> "__init__", files |-> disk]
    /\ UNCHANGED disk
    /\ UNCHANGED threads

CreateL ==
    \E sop_id \in SopIds : \E operations \in CreateArgsL(sop_id) :
        CreateSop(sop_id, "Git Commit Workflow", "Standard git commit workflow", "git",
                  operations)

ExecuteL ==
    /\ Calls < MaxDepth
    /\ \E sop_id \in SopIds, dry_run \in BOOLEAN : \E env \in Envs(sop_id, dry_run) :
          ExecuteSop(sop_id, dry_run, env)

ValidateL ==
    /\ Calls < MaxDepth
    /\ \E sop_id \in SopIds : ValidateSop(sop_id)

RefineL ==
    /\ Calls < MaxDepth
    /\ \E sop_id \in SopIds : \E updates \in Updates(sop_id) : RefineSop(sop_id, updates)

NextL == CreateL \/ ExecuteL \/ ValidateL \/ RefineL \/ NewAgent

SpecL == Init /\ [][NextL]_vars

---------------------------------------------------------------------------
(* Queries on the execution history of two workflows. *)

HistoryIds == {"git_commit_workflow", "deploy_workflow"}

\* s[start:] of Python for a list s and an integer start
SliceFrom(s, start) ==
    LET begin == IF start < 0 THEN Max(Len(s) + start, 0) ELSE Min(start, Len(s))
    IN SubSeq(s, begin + 1, Len(s))

\* [e for e in history if e.sop_id == sop_id]
OfSop(history, sop_id) == SelectSeq(history, LAMBDA e : e.sop_id = sop_id)

\* get_execution_history(sop_id, limit); `if sop_id:` skips None and ""
get_execution_history(history, sop_id, limit) ==
    SliceFrom(IF sop_id \notin {None, ""} THEN OfSop(history, sop_id) ELSE history,
              0 - limit)

GetExecutionHistory(sop_id, limit) ==
    /\ last' = [op |-> "get_execution_history", sop_id |-> sop_id, limit |-> limit,
                result |-> get_execution_history(execution_history, sop_id, limit)]
    /\ UNCHANGED <<sops, execution_history, disk>>
    /\ UNCHANGED threads

CreateH ==
    \E sop_id \in HistoryIds : \E operations \in CreateArgsL(sop_id) :
        CreateSop(sop_id, "Git Commit Workflow", "Standard git commit workflow", "git",
                  operations)

ExecuteH ==
    /\ Len(execution_history) < MaxRecords
    /\ \E sop_id \in HistoryIds, dry_run \in BOOLEAN : \E env \in Envs(sop_id, dry_run) :
          ExecuteSop(sop_id, dry_run, env)

History ==
    \E sop_id \in HistoryIds \cup {None}, limit \in 0..MaxRecords :
        GetExecutionHistory(sop_id, limit)

NextH == CreateH \/ ExecuteH \/ History

SpecH == Init /\ [][NextH]_vars

---------------------------------------------------------------------------
(* Queries on a store of workflows of several components: list_sops, and
   validate_sop_comprehensive on a stored SOP with the record of one of its
   executions. *)

Components == {"git", "deploy"}

\* the summary dict list_sops builds for one SOP
Summary(sop) ==
    [sop_id |-> sop.sop_id,
     name |-> sop.name,
     version |-> sop.version,
     status |-> sop.status,
     component |-> sop.component,
     steps |-> Len(sop.steps),
     execution_count |-> sop.execution_count,
     success_rate |-> SuccessRate(sop.success_count, sop.execution_count)]

\* a listing by component that leaves the drafts out
list_sops_released(store, component, status) ==
    {Summary(store[id]) :
        id \in {id \in DOMAIN store :
                  /\ component \notin {None, ""} =>
                        store[id].component = component /\ store[id].status # "draft"
                  /\ status \notin {None, ""} => store[id].status = status}}

\* list_sops(component, status): `if component:` and `if status:` skip None
\* and ""; the summaries, in no order
list_sops(store, component, status) ==
    {Summary(store[id]) :
        id \in {id \in DOMAIN store :
                  /\ component \notin {None, ""} => store[id].component = component
                  /\ status \notin {None, ""} => store[id].status = status}}

ListSops(component, status) ==
    /\ last' = [op |-> "list_sops", component |-> component, status |-> status,
                result |-> list_sops(sops, component, status)]
    /\ UNCHANGED <<sops, execution_history, disk>>
    /\ UNCHANGED threads

\* validate_sop_comprehensive(get_sop(sop_id), asdict(execution)) for the k-th
\* record of the history
ValidateExecution(k) ==
    /\ k \in DOMAIN execution_history
    /\ execution_history[k].sop_id \in DOMAIN sops
    /\ LET sop_data == asdict(sops[execution_history[k].sop_id])
           execution_results == asdict(execution_history[k])
       IN last' = [op |-> "validate_sop_comprehensive", sop_id |-> sop_data.sop_id,
                   sop_data |-> sop_data,
                   execution_results |-> execution_results,
                   report |-> validate_sop_comprehensive(sop_data, execution_results)]
    /\ UNCHANGED <<sops, execution_history, disk>>
    /\ UNCHANGED threads

CreateS ==
    \E sop_id \in HistoryIds, component \in Components :
        \E operations \in CreateArgsL(sop_id) :
            CreateSop(sop_id, "Git Commit Workflow", "Standard git commit workflow",
                      component, operations)

ExecuteS ==
    /\ Len(execution_history) < MaxRecords
    /\ \E sop_id \in HistoryIds, dry_run \in BOOLEAN : \E env \in Envs(sop_id, dry_run) :
          ExecuteSop(sop_id, dry_run, env)

ValidateS ==
    /\ Len(execution_history) < MaxRecords
    /\ \E sop_id \in HistoryIds : ValidateSop(sop_id)

List ==
    \E component \in Components \cup {None}, status \in {None, "draft", "validated"} :
        ListSops(component, status)

Review == \E k \in 1..MaxRecords : ValidateExecution(k)

NextS == CreateS \/ ExecuteS \/ ValidateS \/ List \/ Review

SpecS == Init /\ [][NextS]_vars

---------------------------------------------------------------------------
(* Calls on threads.  AutoSOPAgent takes no lock: execute_sop and refine_sop
   both work on the object self.sops[sop_id], and a thread can be preempted
   between any read of an attribute and the write that follows it
   (sop.execution_count += 1 is a read, an addition and a write).  Each step
   below is one read or one write of the shared state of lines 340-355 and
   494-505; the loop over the steps (306-330) writes nothing shared and is one
   step.  A caller either holds a lock of its own for the SOP id from the entry
   of the call to its return, or calls without one. *)
\* the two callers
Threads == {1, 2}

\* a thread that has made no call; the arguments and locals of a call hold
\* these until a line of the call assigns them and after the last line that
\* reads them
Idle ==
    [pc |-> "idle", op |-> None, sop_id |-> None, locked |-> FALSE,
     dry_run |-> FALSE, env |-> <<>>, updates |-> <<>>,
     execution |-> None, loaded |-> 0, version |-> <<>>, hash |-> <<>>,
     sop_data |-> None]

InitC ==
    /\ sops = [id \in {} |-> None]
    /\ execution_history = <<>>
    /\ disk = [id \in {} |-> None]
    /\ last = [op |-> "init"]
    /\ threads = [t \in Threads |-> Idle]

Running(t) == threads[t].pc \notin {"idle", "done"}

\* the lock of sop_id is held by a caller
Held(sop_id) ==
    \E u \in Threads : Running(u) /\ threads[u].locked /\ threads[u].sop_id = sop_id

Return(t) ==
    [threads EXCEPT ![t] = [Idle EXCEPT !.pc = "done", !.op = threads[t].op,
                                        !.sop_id = threads[t].sop_id,
                                        !.locked = threads[t].locked]]

\* a caller that calls without waiting for the lock it says it holds
EnterUnlocked(t, op, sop_id, locked, dry_run, env, updates) ==
    /\ threads[t].pc = "idle"
    /\ sop_id \in DOMAIN sops
    /\ threads' = [threads EXCEPT ![t] =
                     [Idle EXCEPT !.pc = IF op = "execute_sop" THEN "loop" ELSE "apply",
                                  !.op = op, !.sop_id = sop_id, !.locked = locked,
                                  !.dry_run = dry_run, !.env = env, !.updates = updates]]
    /\ UNCHANGED <<sops, execution_history, disk, last>>

\* the entry of execute_sop or refine_sop for a stored SOP; a caller that
\* locks waits until the lock of the SOP id is free
Enter(t, op, sop_id, locked, dry_run, env, updates) ==
    /\ threads[t].pc = "idle"
    /\ sop_id \in DOMAIN sops
    /\ locked => ~Held(sop_id)
    /\ threads' = [threads EXCEPT ![t] =
                     [Idle EXCEPT !.pc = IF op = "execute_sop" THEN "loop" ELSE "apply",
                                  !.op = op, !.sop_id = sop_id, !.locked = locked,
                                  !.dry_run = dry_run, !.env = env, !.updates = updates]]
    /\ UNCHANGED <<sops, execution_history, disk, last>>

\* execute_sop, the loop and the record it fills
RunLoop(t) ==
    /\ threads[t].pc = "loop"
    /\ LET sop == sops[threads[t].sop_id]
           st == ExecLoop(sop.steps, threads[t].dry_run, threads[t].env, 1, LoopStart)
       IN threads' = [threads EXCEPT ![t].pc = "load_count",
                                     ![t].execution = Execution(sop, st),
                                     ![t].dry_run = Idle.dry_run,
                                     ![t].env = Idle.env]
    /\ UNCHANGED <<sops, execution_history, disk, last>>

\* sop.execution_count += 1, the read
LoadCount(t) ==
    /\ threads[t].pc = "load_count"
    /\ threads' = [threads EXCEPT ![t].pc = "store_count",
                                  ![t].loaded = sops[threads[t].sop_id].execution_count]
    /\ UNCHANGED <<sops, execution_history, disk, last>>

\* sop.execution_count += 1, the write
StoreCount(t) ==
    /\ threads[t].pc = "store_count"
    /\ sops' = [sops EXCEPT ![threads[t].sop_id].execution_count = threads[t].loaded + 1]
    /\ threads' = [threads EXCEPT ![t].pc = "load_result", ![t].loaded = Idle.loaded]
    /\ UNCHANGED <<execution_history, disk, last>>

\* sop.success_count += 1 or sop.failure_count += 1, the read
LoadResult(t) ==
    /\ threads[t].pc = "load_result"
    /\ LET sop == sops[threads[t].sop_id]
       IN threads' = [threads EXCEPT ![t].pc = "store_result",
                                     ![t].loaded =
                                         IF threads[t].execution.status = "completed"
                                         THEN sop.success_count ELSE sop.failure_count]
    /\ UNCHANGED <<sops, execution_history, disk, last>>

\* sop.success_count += 1 or sop.failure_count += 1, the write
StoreResult(t) ==
    /\ threads[t].pc = "store_result"
    /\ sops' = IF threads[t].execution.status = "completed"
               THEN [sops EXCEPT ![threads[t].sop_id].success_count = threads[t].loaded + 1]
               ELSE [sops EXCEPT ![threads[t].sop_id].failure_count = threads[t].loaded + 1]
    /\ threads' = [threads EXCEPT ![t].pc = "snapshot", ![t].loaded = Idle.loaded]
    /\ UNCHANGED <<execution_history, disk, last>>

\* _save_sop, the dict asdict(sop) builds
Snapshot(t) ==
    /\ threads[t].pc = "snapshot"
    /\ threads' = [threads EXCEPT ![t].pc = "write",
                                  ![t].sop_data = SavedDict(sops[threads[t].sop_id])]
    /\ UNCHANGED <<sops, execution_history, disk, last>>

\* _save_sop, the file written; refine_sop returns after it
WriteFile(t) ==
    /\ threads[t].pc = "write"
    /\ disk' = [id \in DOMAIN disk \cup {threads[t].sop_id} |->
                  IF id = threads[t].sop_id THEN threads[t].sop_data ELSE disk[id]]
    /\ IF threads[t].op = "execute_sop"
       THEN /\ threads' = [threads EXCEPT ![t].pc = "append",
                                          ![t].sop_data = Idle.sop_data]
            /\ UNCHANGED last
       ELSE /\ threads' = Return(t)
            /\ last' = [op |-> "refine_sop", sop_id |-> threads[t].sop_id, ok |-> TRUE]
    /\ UNCHANGED <<sops, execution_history>>

\* self.execution_history.append(execution), and the return of execute_sop
AppendRecord(t) ==
    /\ threads[t].pc = "append"
    /\ execution_history' = Append(execution_history, threads[t].execution)
    /\ threads' = Return(t)
    /\ last' = [op |-> "execute_sop", sop_id |-> threads[t].sop_id,
                ok |-> (threads[t].execution.status = "completed"),
                execution |-> threads[t].execution]
    /\ UNCHANGED <<sops, disk>>

\* refine_sop, the updates applied to the steps
ApplySteps(t) ==
    /\ threads[t].pc = "apply"
    /\ sops' = [sops EXCEPT ![threads[t].sop_id].steps = ApplyUpdates(@, threads[t].updates)]
    /\ threads' = [threads EXCEPT ![t].pc = "load_version", ![t].updates = Idle.updates]
    /\ UNCHANGED <<execution_history, disk, last>>

\* version_parts = sop.version.split('.')
LoadVersion(t) ==
    /\ threads[t].pc = "load_version"
    /\ threads' = [threads EXCEPT ![t].pc = "store_version",
                                  ![t].version = sops[threads[t].sop_id].version]
    /\ UNCHANGED <<sops, execution_history, disk, last>>

\* sop.version = '.'.join(version_parts)
StoreVersion(t) ==
    /\ threads[t].pc = "store_version"
    /\ sops' = [sops EXCEPT ![threads[t].sop_id].version = BumpVersion(threads[t].version)]
    /\ threads' = [threads EXCEPT ![t].pc = "load_steps", ![t].version = Idle.version]
    /\ UNCHANGED <<execution_history, disk, last>>

\* sop.content_hash = self._compute_hash(sop.steps), the hash computed
HashSteps(t) ==
    /\ threads[t].pc = "load_steps"
    /\ threads' = [threads EXCEPT ![t].pc = "store_hash",
                                  ![t].hash = _compute_hash(sops[threads[t].sop_id].steps)]
    /\ UNCHANGED <<sops, execution_history, disk, last>>

\* sop.content_hash = self._compute_hash(sop.steps), the write
StoreHash(t) ==
    /\ threads[t].pc = "store_hash"
    /\ sops' = [sops EXCEPT ![threads[t].sop_id].content_hash = threads[t].hash]
    /\ threads' = [threads EXCEPT ![t].pc = "snapshot", ![t].hash = Idle.hash]
    /\ UNCHANGED <<execution_history, disk, last>>

\* create_sop, before any thread calls
CreateC ==
    /\ \E sop_id \in SopIds : \E operations \in CreateArgsL(sop_id) :
        /\ sop_id \notin DOMAIN sops
        /\ LET sop == NewSop(sop_id, "Git Commit Workflow",
                             "Standard git commit workflow", "git", operations)
           IN /\ sops' = [id \in DOMAIN sops \cup {sop_id} |->
                            IF id = sop_id THEN sop ELSE sops[id]]
              /\ disk' = _save_sop(disk, sop)
              /\ last' = [op |-> "create_sop", sop_id |-> sop_id, ok |-> TRUE,
                          operations |-> operations]
    /\ UNCHANGED <<execution_history, threads>>

ExecuteC ==
    \E t \in Threads, sop_id \in SopIds, locked \in BOOLEAN, dry_run \in BOOLEAN :
        \E env \in Envs(sop_id, dry_run) :
            Enter(t, "execute_sop", sop_id, locked, dry_run, env, <<>>)

RefineC ==
    \E t \in Threads, sop_id \in SopIds, locked \in BOOLEAN :
        \E updates \in Updates(sop_id) :
            Enter(t, "refine_sop", sop_id, locked, FALSE, <<>>, updates)

Loop == \E t \in Threads : RunLoop(t)

Count == \E t \in Threads : LoadCount(t) \/ StoreCount(t)

Result == \E t \in Threads : LoadResult(t) \/ StoreResult(t)

Save == \E t \in Threads : Snapshot(t) \/ WriteFile(t)

Record == \E t \in Threads : AppendRecord(t)

Apply == \E t \in Threads : ApplySteps(t)

Version == \E t \in Threads : LoadVersion(t) \/ StoreVersion(t)

Hash == \E t \in Threads : HashSteps(t) \/ StoreHash(t)

NextC ==
    \/ CreateC \/ ExecuteC \/ RefineC
    \/ Loop \/ Count \/ Result \/ Save \/ Record
    \/ Apply \/ Version \/ Hash

SpecC == InitC /\ [][NextC]_vars

---------------------------------------------------------------------------
(* Properties of the executor *)

\* the state right after an execute_sop call on a stored SOP
Executed == last.op = "execute_sop" /\ last.sop_id \in DOMAIN sops

\* the steps of the SOP the last call was about (execute_sop leaves them alone)
LastSteps == sops[last.sop_id].steps

\* the step numbers that had produced output when the loop reached position i
OutputBefore(i) == {LastSteps[j].step_number : j \in {j \in Range(last.invoked) : j < i}}

\* C1: for every SOP created by create_sop_from_operations, after any sequence
\* of executions (real, dry-run, succeeding or failing) the successes and the
\* failures add up to the executions: success_count + failure_count =
\* execution_count.
C1_CountersAddUp ==
    \A id \in DOMAIN sops :
        sops[id].success_count + sops[id].failure_count = sops[id].execution_count

C1_Witness ==
    \E id \in DOMAIN sops :
        /\ sops[id].success_count >= 1
        /\ sops[id].failure_count >= 1
        /\ sops[id].execution_count >= 2

\* C2: in an execution, a step that declares dependencies and is reached by the
\* loop is handed to _execute_step exactly when each of its dependencies
\* produced output earlier in the same execution; otherwise it is marked failed
\* and never invoked.
C2_DependentStepRunsIffDepsMet ==
    Executed =>
        \A i \in Range(last.attempted) :
            LET step == LastSteps[i]
                met == \A k \in DOMAIN step.dependencies :
                          step.dependencies[k] \in OutputBefore(i)
            IN step.dependencies # <<>> =>
                  /\ (i \in Range(last.invoked)) <=> met
                  /\ ~met => i \in Range(last.failed_at)

ScenarioC ==
    /\ Executed
    /\ ~last.dry_run
    /\ Len(LastSteps) = 2
    /\ 1 \in Range(last.invoked) /\ 1 \in Range(last.failed_at)
    /\ ~LastSteps[1].retry_on_failure

\* C4 (scenario C): a real execution of a two-step SOP whose first step is
\* invoked and fails with retry_on_failure = false gives steps_completed = 0,
\* steps_total = 2, status failed and success_rate 0.0, and never reaches step 2.
C4_ScenarioC ==
    ScenarioC =>
        /\ last.execution.steps_completed = 0
        /\ last.execution.steps_total = 2
        /\ last.execution.status = "failed"
        /\ last.execution.success_rate = 0
        /\ last.ok = FALSE
        /\ 2 \notin Range(last.attempted)

C4_Witness == ScenarioC

---------------------------------------------------------------------------
(* Properties of the validator *)

\* the state right after a validate_sop_comprehensive call
Validated == last.op = "validate_sop_comprehensive"

\* the findings of the last report that are errors of `category`
ErrorsOf(category) ==
    {i \in DOMAIN last.report.findings :
        /\ last.report.findings[i].finding_type = "error"
        /\ last.report.findings[i].category = category}

\* the validator's self-test: a dry run of the steps through the executor
DryRunSucceeds(steps) == ExecLoop(steps, TRUE, <<>>, 1, LoopStart).failed_steps = <<>>

\* the report on the stored SOP built from "echo 1" and "echo 2" (after 1)
ScenarioA ==
    /\ Validated
    /\ last.sop_id \in DOMAIN sops
    /\ last.sop_data = asdict(sops[last.sop_id])
    /\ last.sop_data.steps = <<MakeStep(1, OpEcho1, "git"), MakeStep(2, OpEcho2, "git")>>
    /\ last.sop_data.name # ""
    /\ StrLen(last.sop_data.description) >= 20

\* C5 (scenario A): the SOP created from the operations "echo 1" and "echo 2",
\* the second depending on step 1, with adequate names and descriptions,
\* validates with no error, quality_score 100 and is_approved, and its dry-run
\* self-test succeeds.
C5_ScenarioA ==
    ScenarioA =>
        /\ last.report.errors = 0
        /\ last.report.overall_quality_score = Half(100)
        /\ last.report.is_approved
        /\ DryRunSucceeds(last.sop_data.steps)

\* the report on a two-step SOP dict whose step 2 depends on step 3 alone
ScenarioB ==
    /\ Validated
    /\ DOMAIN last.execution_results = {}
    /\ Len(last.sop_data.steps) = 2
    /\ \A i \in 1..2 : last.sop_data.steps[i].step_number = i
    /\ last.sop_data.steps[1].dependencies = <<>>
    /\ last.sop_data.steps[2].dependencies = <<3>>

\* scenario B with nothing else to find
ScenarioBClean == ScenarioB /\ last.report.total_findings = Cardinality(ErrorsOf("logic"))

\* C6 (scenario B) as claimed: a two-step SOP whose step 2 declares the single
\* dependency 3 gets exactly one logic error of severity 5, quality_score 90
\* and is not approved.
C6_ScenarioBOneError ==
    ScenarioBClean =>
        /\ Cardinality(ErrorsOf("logic")) = 1
        /\ last.report.overall_quality_score = Half(90)
        /\ ~last.report.is_approved

\* C6 amended: step 2 gets exactly two logic errors of severity 5, one for the
\* step that does not exist and one for the forward reference, so that
\* quality_score is at most 80, exactly 80 when nothing else is found, and the
\* SOP is not approved.
C6_ScenarioBTwoErrors ==
    ScenarioB =>
        /\ Cardinality(ErrorsOf("logic")) = 2
        /\ \A i \in ErrorsOf("logic") :
              /\ last.report.findings[i].severity = 5
              /\ last.report.findings[i].step_number = 2
        /\ {last.report.findings[i].code : i \in ErrorsOf("logic")} = {"LOG_001", "LOG_002"}
        /\ last.report.overall_quality_score <= Half(80)
        /\ ScenarioBClean => last.report.overall_quality_score = Half(80)
        /\ ~last.report.is_approved

C6_Witness == ScenarioBClean

\* C7: a report is approved exactly when it has no error finding, its
\* quality_score is at least 80 and the dry-run self-test of the SOP succeeds.
C7_ApprovedIffCleanAndSelfTested ==
    (Validated /\ last.sop_id \in DOMAIN sops) =>
        (last.report.is_approved <=>
            /\ last.report.errors = 0
            /\ last.report.overall_quality_score >= Half(80)
            /\ DryRunSucceeds(last.sop_data.steps))

\* C8: a SOP without steps gets at least one structure error from
\* validate_sop_comprehensive and is not approved by it, validate_sop finds it
\* invalid, and its status is never validated.
C8_EmptySopNeverApproved ==
    \A id \in DOMAIN sops :
        sops[id].steps = <<>> =>
            /\ sops[id].status # "validated"
            /\ (Validated /\ last.sop_id = id) =>
                  /\ Cardinality(ErrorsOf("structure")) >= 1
                  /\ ~last.report.is_approved
            /\ (last.op = "validate_sop" /\ last.sop_id = id) => ~last.is_valid

C8_Witness ==
    /\ Validated
    /\ last.sop_id \in DOMAIN sops
    /\ sops[last.sop_id].steps = <<>>
    /\ sops[last.sop_id].name # ""
    /\ sops[last.sop_id].execution_count >= 2

\* C9: a step with a dependency greater than or equal to its own step_number
\* gets an error finding of category logic and severity 5.
C9_ForwardDependencyIsLogicError ==
    Validated =>
        \A i \in DOMAIN last.sop_data.steps :
            LET step == last.sop_data.steps[i]
            IN (\E k \in DOMAIN step.dependencies : step.dependencies[k] >= step.step_number)
               => \E f \in ErrorsOf("logic") :
                     /\ last.report.findings[f].step_number = step.step_number
                     /\ last.report.findings[f].severity = 5

C9_Witness ==
    /\ Validated
    /\ \E i \in DOMAIN last.sop_data.steps :
          /\ last.sop_data.steps[i].dependencies = <<last.sop_data.steps[i].step_number>>
          /\ \A j \in DOMAIN last.sop_data.steps :
                j # i => last.sop_data.steps[j].step_number # last.sop_data.steps[i].step_number

\* the severities of the findings of `finding_type`, added up
SeveritySum(findings, finding_type) ==
    Sum([i \in DOMAIN findings |->
            IF findings[i].finding_type = finding_type THEN findings[i].severity ELSE 0],
        DOMAIN findings)

\* sum of the weights of the claim, in half points: severity*2 per error,
\* severity per warning, 0.5 per suggestion, nothing per info
Weight(findings) ==
    Half(2 * SeveritySum(findings, "error")) + Half(SeveritySum(findings, "warning"))
    + CountType(findings, "suggestion")

\* C10: quality_score is 100 minus the sum of the weights of the findings,
\* clamped to [0, 100]: never below 0, never above 100.
C10_ScoreIsClampedWeightSum ==
    Validated =>
        /\ last.report.overall_quality_score =
              Min(Half(100), Max(0, Half(100) - Weight(last.report.findings)))
        /\ last.report.overall_quality_score >= 0
        /\ last.report.overall_quality_score <= Half(100)

C10_Witness ==
    /\ Validated
    /\ Weight(last.report.findings) > Half(100)
    /\ last.report.overall_quality_score = 0

\* C11: a finding list with error or warning findings added to it (severities
\* as the checks give them) never scores higher than the list without them.
C11_MoreFindingsNeverRaiseScore ==
    last.op = "quality_score" =>
        /\ \A i \in DOMAIN last.added : last.added[i].finding_type \in {"error", "warning"}
        /\ last.quality_score_with_added <= last.quality_score

C11_Witness ==
    /\ last.op = "quality_score"
    /\ last.quality_score > 0
    /\ last.quality_score_with_added = 0
    /\ \E i \in DOMAIN last.added : last.added[i].finding_type = "warning"

---------------------------------------------------------------------------
(* Properties of the store *)

\* the SOP the call that just returned was about
LastSop == sops[last.sop_id]

\* C12: create_sop_from_operations with a new id and N operations stores a SOP
\* of exactly N steps numbered 1..N in input order, step i built from operation
\* i, with status draft, version 1.0.0 and all execution counters 0.
C12_CreateBuildsNumberedSteps ==
    (last.op = "create_sop" /\ last.ok) =>
        /\ Len(LastSop.steps) = Len(last.operations)
        /\ \A i \in DOMAIN last.operations :
              LET op == last.operations[i]
                  step == LastSop.steps[i]
              IN /\ step.step_number = i
                 /\ step.command = Get(op, "command", "")
                 /\ step.name = Get(op, "name", StepLabel(i))
                 /\ step.description = Get(op, "description", "")
                 /\ step.dependencies = Get(op, "dependencies", <<>>)
                 /\ step.retry_on_failure = Get(op, "retry_on_failure", TRUE)
        /\ LastSop.status = "draft"
        /\ LastSop.version = <<1, 0, 0>>
        /\ LastSop.execution_count = 0
        /\ LastSop.success_count = 0
        /\ LastSop.failure_count = 0

C12_Witness ==
    /\ last.op = "create_sop" /\ last.ok
    /\ Len(last.operations) = MaxSteps
    /\ last.operations[1] # last.operations[MaxSteps]

\* C13: create_sop_from_operations with an id that is in the store returns a
\* failure and leaves the stored SOPs, the set of stored ids and the files as
\* they were.
C13_DuplicateCreateChangesNothing ==
    [][(last'.op = "create_sop" /\ last'.sop_id \in DOMAIN sops) =>
          /\ ~last'.ok
          /\ sops' = sops
          /\ disk' = disk]_vars

C13_Witness ==
    /\ last.op = "create_sop" /\ ~last.ok
    /\ LastSop.version[3] >= 1
    /\ LastSop.execution_count >= 1
    /\ LastSop.steps # <<>>

\* C14: every successful refine_sop adds exactly 1 to the patch component of
\* the version and leaves major and minor alone; from 1.0.0 the first gives
\* 1.0.1 and the second 1.0.2.
C14_RefineBumpsPatch ==
    [][(last'.op = "refine_sop" /\ last'.ok) =>
          LET before == sops[last'.sop_id].version
              after == sops'[last'.sop_id].version
          IN /\ after = <<before[1], before[2], before[3] + 1>>
             /\ before = <<1, 0, 0>> => after = <<1, 0, 1>>
             /\ before = <<1, 0, 1>> => after = <<1, 0, 2>>]_vars

C14_Witness ==
    /\ last.op = "refine_sop" /\ last.ok
    /\ LastSop.version = <<1, 0, 2>>

\* C15: after every call the stored content_hash of each SOP is the hash of
\* its current step list; a call that leaves the step list field for field as
\* it was leaves the hash as it was, and a refine_sop that changes a field of a
\* step changes the stored hash.
C15_HashFollowsSteps ==
    [][/\ \A id \in DOMAIN sops' : sops'[id].content_hash = _compute_hash(sops'[id].steps)
       /\ \A id \in DOMAIN sops \cap DOMAIN sops' :
             (sops'[id].steps = sops[id].steps)
                <=> (sops'[id].content_hash = sops[id].content_hash)]_vars

C15_Witness ==
    /\ last.op = "refine_sop" /\ last.ok
    /\ LastSop.execution_count >= 1
    /\ \E i \in DOMAIN LastSop.steps : LastSop.steps[i].dependencies = <<2>>
    /\ \E i \in DOMAIN LastSop.steps : LastSop.steps[i].step_number # i

\* C16: refine_sop with an update for a step_number no step of the SOP has
\* returns a failure.
C16_UnknownStepRefineFails ==
    [][(/\ last'.op = "refine_sop"
        /\ last'.sop_id \in DOMAIN sops
        /\ \E k \in DOMAIN last'.updates :
              FindStep(sops[last'.sop_id].steps, last'.updates[k][1]) = 0)
       => ~last'.ok]_vars

\* C17: refine_sop leaves step_number, retry_on_failure, max_retries,
\* component and expected_output of every step as they were, whatever the
\* updates.
C17_RefineKeepsFixedFields ==
    [][(last'.op = "refine_sop" /\ last'.sop_id \in DOMAIN sops) =>
          LET before == sops[last'.sop_id].steps
              after == sops'[last'.sop_id].steps
          IN /\ Len(after) = Len(before)
             /\ \A i \in DOMAIN before :
                   \A field \in {"step_number", "retry_on_failure", "max_retries",
                                 "component", "expected_output"} :
                       after[i][field] = before[i][field]]_vars

\* the records of the history the query is about: all of them, or those of sop_id
Queried == IF last.sop_id = None THEN execution_history
           ELSE OfSop(execution_history, last.sop_id)

\* C18: get_execution_history(sop_id, limit) returns at most limit records for
\* every limit >= 0, limit = 0 included, and they are the most recent records
\* of the history (of sop_id, if given), in insertion order.
C18_HistoryReturnsLastLimit ==
    last.op = "get_execution_history" =>
        LET n == Min(last.limit, Len(Queried))
        IN /\ Len(last.result) <= last.limit
           /\ last.result = SubSeq(Queried, Len(Queried) - n + 1, Len(Queried))

\* C19: a validate_sop that finds the SOP valid sets its status to validated,
\* and no validate_sop, execute_sop or refine_sop changes the status of a SOP
\* that is validated, a validate_sop that finds it invalid included.
C19_ValidatedStays ==
    [][/\ (last'.op = "validate_sop" /\ last'.is_valid) =>
              sops'[last'.sop_id].status = "validated"
       /\ last'.op \in {"validate_sop", "execute_sop", "refine_sop"} =>
              \A id \in DOMAIN sops :
                  sops[id].status = "validated" =>
                      id \in DOMAIN sops' /\ sops'[id].status = "validated"]_vars

C19_Witness ==
    /\ last.op = "validate_sop" /\ ~last.is_valid
    /\ last.sop_id \in DOMAIN sops
    /\ LastSop.status = "validated"
    /\ LastSop.version[3] >= 1

\* C20: a new agent over the files the calls have saved holds every saved SOP,
\* with the id, version, status, validation_level, steps, counters and
\* content_hash that were saved.
C20_LoadRestoresSavedSops ==
    last.op = "__init__" =>
        \A id \in DOMAIN last.files :
            /\ id \in DOMAIN sops
            /\ \A field \in {"sop_id", "version", "status", "validation_level", "steps",
                             "execution_count", "success_count", "failure_count",
                             "content_hash"} :
                  sops[id][field] = last.files[id][field]

---------------------------------------------------------------------------
(* Properties of the calls: what they write and what they leave alone *)

\* the step just taken is a call `op` on a SOP that was in the store
Called(op) == last'.op = op /\ last'.sop_id \in DOMAIN sops

\* C23: every execute_sop on a known id appends exactly one record to the
\* execution history and leaves the earlier records as they were; the status of
\* the record is completed exactly when its failed_steps is empty, failed
\* otherwise, and never running.
C23_ExecuteAppendsOneRecord ==
    [][Called("execute_sop") =>
          /\ Len(execution_history') = Len(execution_history) + 1
          /\ SubSeq(execution_history', 1, Len(execution_history)) = execution_history
          /\ LET record == execution_history'[Len(execution_history')]
             IN /\ record = last'.execution
                /\ record.sop_id = last'.sop_id
                /\ record.status \in {"completed", "failed"}
                /\ record.status = "completed" <=> record.failed_steps = <<>>]_vars

C23_Witness ==
    /\ Executed
    /\ Len(execution_history) = MaxRecords
    /\ last.execution.status = "failed"
    /\ execution_history[1].status = "completed"
    /\ execution_history[1].sop_id # last.sop_id

\* C24: in every stored SOP the step at list position i has step_number i.
C24_StepNumberIsPosition ==
    \A id \in DOMAIN sops :
        \A i \in DOMAIN sops[id].steps : sops[id].steps[i].step_number = i

\* C25: in every stored SOP every dependency of a step is the step_number of a
\* step of the SOP and is smaller than the step_number of the step that has it.
C25_DependenciesPointBackward ==
    \A id \in DOMAIN sops :
        LET steps == sops[id].steps
        IN \A i \in DOMAIN steps : \A k \in DOMAIN steps[i].dependencies :
              LET dep == steps[i].dependencies[k]
              IN /\ \E j \in DOMAIN steps : steps[j].step_number = dep
                 /\ dep < steps[i].step_number

\* C26: execute_sop, real or dry, leaves steps, version, content_hash and
\* status of the SOP (and every field but the three counters) as they were;
\* refine_sop leaves the three counters as they were.
C26_ExecuteAndRefineFrames ==
    [][/\ Called("execute_sop") =>
              LET before == sops[last'.sop_id]
                  after == sops'[last'.sop_id]
              IN /\ \A field \in DOMAIN before \ {"execution_count", "success_count",
                                                  "failure_count"} :
                        after[field] = before[field]
                 /\ after.execution_count # before.execution_count
       /\ Called("refine_sop") =>
              \A field \in {"execution_count", "success_count", "failure_count"} :
                  sops'[last'.sop_id][field] = sops[last'.sop_id][field]]_vars

C26_Witness ==
    /\ last.op = "refine_sop" /\ last.ok
    /\ LastSop.status = "validated"
    /\ LastSop.execution_count >= 2
    /\ LastSop.failure_count >= 1

\* C27: within one execute_sop the steps are handed to _execute_step in
\* increasing list position, each at most once: a failed step is not tried
\* again, whatever its retry_on_failure and max_retries.
C27_InvokedInOrderOnce ==
    Executed =>
        \A a, b \in DOMAIN last.invoked : a < b => last.invoked[a] < last.invoked[b]

C27_Witness ==
    /\ Executed
    /\ Len(last.invoked) >= 2
    /\ last.invoked[1] \in Range(last.failed_at)
    /\ LastSteps[last.invoked[1]].retry_on_failure
    /\ LastSteps[last.invoked[1]].max_retries > 0

\* C28: a dry-run execute_sop makes no subprocess.run call, neither for a
\* command nor for a validation_check, and every step the loop reaches whose
\* dependency check passes is recorded as successful.
C28_DryRunInvokesNothing ==
    (Executed /\ last.dry_run) =>
        /\ last.commands = <<>>
        /\ \A i \in Range(last.invoked) : i \notin Range(last.failed_at)
        /\ Range(last.attempted) = Range(last.invoked) \cup Range(last.failed_at)
        /\ last.execution.steps_completed = Len(last.invoked)

C28_Witness ==
    /\ Executed /\ last.dry_run
    /\ \E i \in Range(last.invoked) :
          /\ LastSteps[i].validation_check \notin {None, ""}
          /\ LastSteps[i].command # ""
    /\ Len(last.invoked) >= 2

\* C30: every validate_sop on a known id runs one dry-run execution that is
\* counted like any other: execution_count grows by 1, one of success_count
\* and failure_count grows by 1, and one record is appended to the history.
C30_ValidateCountsAsExecution ==
    [][Called("validate_sop") =>
          LET before == sops[last'.sop_id]
              after == sops'[last'.sop_id]
          IN /\ after.execution_count = before.execution_count + 1
             /\ after.success_count + after.failure_count
                   = before.success_count + before.failure_count + 1
             /\ after.success_count >= before.success_count
             /\ after.failure_count >= before.failure_count
             /\ Len(execution_history') = Len(execution_history) + 1
             /\ SubSeq(execution_history', 1, Len(execution_history)) = execution_history
             /\ execution_history'[Len(execution_history')].sop_id = last'.sop_id]_vars

C30_Witness ==
    /\ last.op = "validate_sop" /\ last.sop_id \in DOMAIN sops
    /\ ~last.is_valid
    /\ LastSop.execution_count >= 2
    /\ LastSop.success_count >= 1
    /\ LastSop.failure_count >= 1

---------------------------------------------------------------------------
(* Properties of the queries *)

\* the stored ids a listing by `component` and `status` is to return
Listed(component, status) ==
    {id \in DOMAIN sops :
        /\ component # None => sops[id].component = component
        /\ status # None => sops[id].status = status}

\* C21: list_sops(component = c) returns exactly the stored SOPs whose
\* component is c, whatever their status; list_sops(status = s) exactly those
\* whose status is s; with both filters, exactly those that meet both.
C21_ListFilters ==
    last.op = "list_sops" =>
        /\ {summary.sop_id : summary \in last.result} = Listed(last.component, last.status)
        /\ Cardinality(last.result) = Cardinality(Listed(last.component, last.status))
        /\ \A summary \in last.result :
              /\ summary.component = sops[summary.sop_id].component
              /\ summary.status = sops[summary.sop_id].status

C21_Witness ==
    /\ last.op = "list_sops"
    /\ last.component = "git" /\ last.status = None
    /\ Cardinality(DOMAIN sops) = 2
    /\ Cardinality(last.result) = 1
    /\ \E summary \in last.result : summary.status = "validated"
    /\ \E id \in DOMAIN sops : sops[id].component = "deploy" /\ sops[id].status = "draft"

\* the EXE_001 findings of the last report for the step numbered n
ExecutionFindings(n) ==
    {i \in ErrorsOf("logic") :
        /\ last.report.findings[i].code = "EXE_001"
        /\ last.report.findings[i].step_number = n}

\* C29: validate_sop_comprehensive given the record of an execution of the SOP
\* that ended failed with failed_steps S reports exactly one error finding of
\* category logic per step number of S for that execution.
C29_FailedStepsBecomeFindings ==
    (/\ Validated
     /\ DOMAIN last.execution_results # {}
     /\ last.execution_results.status = "failed")
    => \A k \in DOMAIN last.execution_results.failed_steps :
          Cardinality(ExecutionFindings(last.execution_results.failed_steps[k])) = 1

---------------------------------------------------------------------------
(* Properties of calls on threads *)

\* the threads whose call of op has returned
Finished(op) == {t \in Threads : threads[t].pc = "done" /\ threads[t].op = op}

\* no call is in progress
Quiescent == \A t \in Threads : ~Running(t)

\* every caller so far held the lock of the SOP id during its call
Serialized == \A t \in Threads : threads[t].pc # "idle" => threads[t].locked

\* the stored SOP and its file show every call that has returned
Reflected(sop_id) ==
    LET sop == sops[sop_id]
    IN /\ sop.execution_count = Cardinality(Finished("execute_sop"))
       /\ sop.success_count =
              Len(SelectSeq(execution_history, LAMBDA e : e.status = "completed"))
       /\ sop.failure_count =
              Len(SelectSeq(execution_history, LAMBDA e : e.status = "failed"))
       /\ sop.version = <<1, 0, Cardinality(Finished("refine_sop"))>>
       /\ sop.content_hash = _compute_hash(sop.steps)
       /\ disk[sop_id] = SavedDict(sop)

(* C22: when every caller holds the lock of the SOP id during its call, then
   once the calls have returned nothing is lost: execution_count is the number
   of executions that returned, the success and failure counters are those of
   the history, the patch number is the number of refinements, content_hash is
   the hash of the steps, and the file is the stored SOP.  Without the lock
   calls that interleave lose an update (C22_Witness). *)
C22_SerializedCallsLoseNothing ==
    \A sop_id \in DOMAIN sops : (Serialized /\ Quiescent) => Reflected(sop_id)

\* every thread has executed the SOP without the lock, and execution_count is
\* smaller than the number of executions that returned
C22_Witness ==
    /\ Quiescent
    /\ Finished("execute_sop") = Threads
    /\ \A t \in Threads : ~threads[t].locked
    /\ \E sop_id \in DOMAIN sops :
          /\ sops[sop_id].execution_count < Cardinality(Threads)
          /\ Len(OfSop(execution_history, sop_id)) = Cardinality(Threads)

====
